---- MODULE Spec2Model ----
(***************************************************************************)
(* Rustdis: an in-process key-value store (src/src/cache.rs) behind one    *)
(* reader-writer lock, the command dispatcher on top of it                 *)
(* (src/src/protocol.rs) and the facades that own a clone of the store     *)
(* handle (src/src/api.rs, src/Rustdis/src/main.rs).                       *)
(*                                                                         *)
(* Eight specifications share the variables:                               *)
(*   Spec       threads calling the store methods concurrently             *)
(*   SpecLive   the same with the wait for the lock, under fair scheduling *)
(*   SpecMT     the multi-thread example of basic_usage.rs                 *)
(*   SpecProto  one thread driving the dispatcher and the store handle     *)
(*   SpecPoison threads calling the dispatcher, a writer may panic         *)
(*   SpecFront  the API facade and the REPL (src/src/api.rs,               *)
(*              src/src/cli.rs) with the serde encodings of Command and    *)
(*              Response                                                   *)
(*   SpecMain   runs of the binary with a single-shot subcommand           *)
(*   SpecRepl   the loop of RustdisCli::run over a standard input          *)
(***************************************************************************)
EXTENDS Integers, Sequences, FiniteSets, TLC

\* TLC keeps and compares the fields of a record in the order in which their
\* names first occur in the module. Naming them here, the discriminating
\* field of every record before its payload, makes records of different
\* variants comparable and every record below written in that order.
FieldOrder ==
    [cmd |-> "", handle |-> "", kind |-> "", last |-> "", name |-> "",
     ok |-> "", pc |-> "", readers |-> "", res |-> "", some |-> "", t |-> "",
     tag |-> "", heap |-> "", key |-> "", spawned |-> "", writer |-> "",
     v |-> "", val |-> "", value |-> "", joined |-> "", poisoned |-> "",
     by |-> "", self |-> "", chaves |-> "", via |-> "", idx |-> "",
     command |-> "", args |-> "", input |-> "", parsed |-> "", resp |-> "",
     data |-> "", calls |-> "", out |-> "", before |-> "", decoded |-> "",
     executed |-> "", stdout |-> "", code |-> "", stdin |-> "", pos |-> "",
     log |-> "", stop |-> ""]

\* ------------------------------------------------------------------ bounds
NumThreads == 2
NumKeys == 2
NumValues == 2
MTThreads == 3

KeyName(i) == IF i = 1 THEN "nome" ELSE "key" \o ToString(i)
ValueName(i) == IF i = 1 THEN "Lucas" ELSE "value" \o ToString(i)
Keys == {KeyName(i) : i \in 1..NumKeys}
Values == {ValueName(i) : i \in 1..NumValues}
Threads == 1..NumThreads

\* ------------------------------------------------------- values and results
\* Option<String>
None == [some |-> FALSE, val |-> ""]
Some(v) == [some |-> TRUE, val |-> v]
\* the unit value ()
Unit == "()"
\* anyhow::Result<T>
Ok(x) == [ok |-> TRUE, val |-> x]
Err(e) == [ok |-> FALSE, val |-> e]

\* HashMap<String, String>: a function whose domain is the set of present keys
EmptyMap == [k \in {} |-> ""]
insert(data, key, value) ==
    [k \in (DOMAIN data) \cup {key} |-> IF k = key THEN value ELSE data[k]]
remove(data, key) == [k \in (DOMAIN data) \ {key} |-> data[k]]

\* every order in which the iterator of a HashMap may yield the elements of S
Orderings(S) ==
    {s \in [1..Cardinality(S) -> S] :
        \A i, j \in 1..Cardinality(S) : i # j => s[i] # s[j]}

\* the handle: RustdisCache { data: Arc<RwLock<HashMap>> }, data is the
\* address of the shared allocation
NoHandle == [data |-> 0]
\* RwLock::new: nobody holds it and it is not poisoned
FreeLock == [readers |-> {}, writer |-> {}, poisoned |-> FALSE]

VARIABLES
    heap,       \* heap[a]: the HashMap of allocation a
    lock,       \* lock[a]: the RwLock of allocation a: who holds it
    cache,      \* the handle returned by RustdisCache::new()
    facade,     \* the handle owned by the facade's RustdisProtocol
    pc,         \* pc[t]: "idle", "held" (guard acquired), "drop" (body done)
    req,        \* req[t]: the call thread t is executing
    res,        \* res[t]: the value the call is about to return
    pre,        \* pre[t]: history snapshot taken when the body ran
    lastWrite,  \* history: the most recent write to each key written so far
    scen,       \* history: how far the dispatcher followed the scenario
    mt,         \* locals of main() in the multi-thread example
    io          \* the facade's last exchange: input, Command, Response, output

vars == <<heap, lock, cache, facade, pc, req, res, pre, lastWrite, scen, mt, io>>

NoReq == [name |-> "none", key |-> "", value |-> "", self |-> 0, via |-> ""]
NoRes == [ok |-> FALSE, val |-> "none"]
NoPre == [last |-> EmptyMap, data |-> EmptyMap]
NoIO == [via |-> "none"]
NoMT == [pc |-> "off", spawned |-> 0, joined |-> 0, chaves |-> <<>>, idx |-> 0]

\* ------------------------------------------------------------ RustdisCache
\* RustdisCache::new(): one fresh allocation holding an empty map
RustdisCache_new == [handle |-> [data |-> 1], heap |-> <<EmptyMap>>]

\* variant: clone copies the map into an allocation of its own
clone_Deep(h, hp) ==
    [handle |-> [data |-> Len(hp) + 1], heap |-> Append(hp, hp[h.data])]
\* #[derive(Clone)]: Arc::clone of the data field, the allocation is shared
clone(h, hp) == [handle |-> [data |-> h.data], heap |-> hp]

\* the body of each method, run on the map behind the acquired guard:
\* the Result it returns and the map it leaves
\* variant: get takes the entry out of the map (remove where the code has get)
get_Take(data, key) ==
    [res |-> Ok(IF key \in DOMAIN data THEN Some(data[key]) ELSE None),
     data |-> remove(data, key)]
get(data, key) ==
    [res |-> Ok(IF key \in DOMAIN data THEN Some(data[key]) ELSE None),
     data |-> data]
\* variant: set keeps the value of a key that is already present (or_insert)
set_KeepOld(data, key, value) ==
    [res |-> Ok(Unit),
     data |-> IF key \in DOMAIN data THEN data ELSE insert(data, key, value)]
\* variant: set appends to the value of a key that is already present
set_Append(data, key, value) ==
    [res |-> Ok(Unit),
     data |-> IF key \in DOMAIN data
              THEN insert(data, key, data[key] \o value)
              ELSE insert(data, key, value)]
\* variant: set replaces the whole map by the one pair
set_Replace(data, key, value) ==
    [res |-> Ok(Unit), data |-> [k \in {key} |-> value]]
set(data, key, value) ==
    [res |-> Ok(Unit), data |-> insert(data, key, value)]
\* variant: del reports the key without removing it
del_NoRemove(data, key) ==
    [res |-> Ok(key \in DOMAIN data), data |-> data]
\* variant: del answers is_none() where the code has is_some()
del_IsNone(data, key) ==
    [res |-> Ok(key \notin DOMAIN data), data |-> remove(data, key)]
\* variant: del keeps the key and removes the others (retain, inverted)
del_Retain(data, key) ==
    [res |-> Ok(key \in DOMAIN data),
     data |-> [k \in (DOMAIN data) \cap {key} |-> data[k]]]
del(data, key) ==
    [res |-> Ok(key \in DOMAIN data), data |-> remove(data, key)]
exists(data, key) ==
    [res |-> Ok(key \in DOMAIN data), data |-> data]
keys(data) ==
    {[res |-> Ok(s), data |-> data] : s \in Orderings(DOMAIN data)}
\* variant: flush returns Ok(()) without clearing
flush_NoClear(data) ==
    [res |-> Ok(Unit), data |-> data]
flush(data) ==
    [res |-> Ok(Unit), data |-> EmptyMap]
size(data) ==
    [res |-> Ok(Cardinality(DOMAIN data)), data |-> data]

\* variant: every method takes the shared lock
LockKind_AllRead(name) == "read"
\* variant: flush takes the shared lock
LockKind_FlushRead(name) ==
    IF name \in {"get", "exists", "keys", "size", "flush"} THEN "read" ELSE "write"
\* read() or write(): the access each method asks of the RwLock
LockKind(name) ==
    IF name \in {"get", "exists", "keys", "size"} THEN "read" ELSE "write"

\* the possible outcomes of a method body on the map data
Outcomes(op, data) ==
    CASE op.name = "get" -> {get(data, op.key)}
      [] op.name = "set" -> {set(data, op.key, op.value)}
      [] op.name = "del" -> {del(data, op.key)}
      [] op.name = "exists" -> {exists(data, op.key)}
      [] op.name = "keys" -> keys(data)
      [] op.name = "flush" -> {flush(data)}
      [] op.name = "size" -> {size(data)}

\* the calls a thread can make on the handle h
CacheOps(h, via) ==
    {[name |-> n, key |-> k, value |-> "", self |-> h.data, via |-> via] :
        n \in {"get", "del", "exists"}, k \in Keys}
    \cup {[name |-> "set", key |-> k, value |-> v, self |-> h.data, via |-> via] :
        k \in Keys, v \in Values}
    \cup {[name |-> n, key |-> "", value |-> "", self |-> h.data, via |-> via] :
        n \in {"keys", "flush", "size"}}

\* ----------------------------------------------------------------- history
Never == [kind |-> "never", val |-> "", by |-> ""]
LastOf(last, k) == IF k \in DOMAIN last THEN last[k] ELSE Never
\* the history after the write op (reads leave it alone)
Written(op, last) ==
    CASE op.name = "set" ->
            insert(last, op.key, [kind |-> "set", val |-> op.value, by |-> op.via])
      [] op.name = "del" ->
            insert(last, op.key, [kind |-> "del", val |-> "", by |-> op.via])
      [] op.name = "flush" ->
            [k \in DOMAIN last |-> [kind |-> "flush", val |-> "", by |-> op.via]]
      [] OTHER -> last
\* the mapping the history stands for
Present(last) == {k \in DOMAIN last : last[k].kind = "set"}
AbsMap(last) == [k \in Present(last) |-> last[k].val]

\* ------------------------------------------------- the store under threads
\* self.data.read() / self.data.write(): blocks until the RwLock grants it
Acquire(t, op) ==
    /\ pc[t] = "idle"
    /\ LET l == lock[op.self] IN
         IF LockKind(op.name) = "read"
         THEN /\ ~l.poisoned
              /\ l.writer = {}
              /\ lock' = [lock EXCEPT ![op.self].readers = @ \cup {t}]
         ELSE /\ ~l.poisoned
              /\ l.writer = {}
              /\ l.readers = {}
              /\ lock' = [lock EXCEPT ![op.self].writer = @ \cup {t}]
    /\ pc' = [pc EXCEPT ![t] = "held"]
    /\ req' = [req EXCEPT ![t] = op]
    /\ UNCHANGED <<heap, cache, facade, res, pre, lastWrite, scen, mt, io>>

\* the method body under the guard (everything but clear())
Body(t) ==
    /\ pc[t] = "held"
    /\ req[t].name # "flush"
    /\ \E o \in Outcomes(req[t], heap[req[t].self]) :
         /\ heap' = [heap EXCEPT ![req[t].self] = o.data]
         /\ res' = [res EXCEPT ![t] = o.res]
    /\ pre' = [pre EXCEPT ![t] = [last |-> lastWrite, data |-> heap[req[t].self]]]
    /\ lastWrite' = Written(req[t], lastWrite)
    /\ pc' = [pc EXCEPT ![t] = "drop"]
    /\ UNCHANGED <<lock, cache, facade, req, scen, mt, io>>

\* data.clear() empties the table entry by entry
ClearStep(t) ==
    /\ pc[t] = "held"
    /\ req[t].name = "flush"
    /\ \E k \in DOMAIN heap[req[t].self] :
         heap' = [heap EXCEPT ![req[t].self] = remove(@, k)]
    /\ UNCHANGED <<lock, cache, facade, pc, req, res, pre, lastWrite, scen, mt, io>>

\* ... and flush returns Ok(()) with whatever clear() had left removed too
ClearDone(t) ==
    /\ pc[t] = "held"
    /\ req[t].name = "flush"
    /\ heap' = [heap EXCEPT ![req[t].self] = flush(@).data]
    /\ res' = [res EXCEPT ![t] = flush(heap[req[t].self]).res]
    /\ pre' = [pre EXCEPT ![t] = [last |-> lastWrite, data |-> heap[req[t].self]]]
    /\ lastWrite' = Written(req[t], lastWrite)
    /\ pc' = [pc EXCEPT ![t] = "drop"]
    /\ UNCHANGED <<lock, cache, facade, req, scen, mt, io>>

\* the guard is dropped when the method returns
\* variant: the guard is forgotten (mem::forget) and the lock stays taken
Release_Leak(t) ==
    lock' = lock
Release(t) ==
    lock' = [lock EXCEPT ![req[t].self] =
                [@ EXCEPT !.readers = @ \ {t}, !.writer = @ \ {t}]]

Return(t) ==
    /\ pc[t] = "drop"
    /\ Release(t)
    /\ pc' = [pc EXCEPT ![t] = "idle"]
    /\ req' = [req EXCEPT ![t] = NoReq]
    /\ res' = [res EXCEPT ![t] = NoRes]
    /\ pre' = [pre EXCEPT ![t] = NoPre]
    /\ UNCHANGED <<heap, cache, facade, lastWrite, scen, mt, io>>

Init ==
    /\ heap = RustdisCache_new.heap
    /\ lock = [a \in DOMAIN RustdisCache_new.heap |-> FreeLock]
    /\ cache = RustdisCache_new.handle
    /\ facade = NoHandle
    /\ pc = [t \in Threads |-> "idle"]
    /\ req = [t \in Threads |-> NoReq]
    /\ res = [t \in Threads |-> NoRes]
    /\ pre = [t \in Threads |-> NoPre]
    /\ lastWrite = EmptyMap
    /\ scen = 0
    /\ mt = NoMT
    /\ io = NoIO

Next ==
    \/ \E t \in Threads : \E op \in CacheOps(cache, "cache") : Acquire(t, op)
    \/ \E t \in Threads : Body(t)
    \/ \E t \in Threads : ClearStep(t)
    \/ \E t \in Threads : ClearDone(t)
    \/ \E t \in Threads : Return(t)

Spec == Init /\ [][Next]_vars

\* ---- the lock under fair scheduling ---------------------------------------
\* The same methods with the wait for the lock made visible: a call first
\* reaches self.data.read() / self.data.write() and blocks there until the
\* lock can be granted.  RwLock promises no order among the waiting calls.

\* the calls of the threads: every method, on one key and one value
LiveOps ==
    {op \in CacheOps(cache, "cache") :
        op.key \in {"", KeyName(1)} /\ op.value \in {"", ValueName(1)}}

\* a thread calls a method and arrives at read() / write()
Call(t, op) ==
    /\ pc[t] = "idle"
    /\ pc' = [pc EXCEPT ![t] = "waiting"]
    /\ req' = [req EXCEPT ![t] = op]
    /\ UNCHANGED <<heap, lock, cache, facade, res, pre, lastWrite, scen, mt, io>>

\* read() is blocked by a writer, write() by a writer or by readers
Blocked(t) ==
    LET l == lock[req[t].self] IN
    IF LockKind(req[t].name) = "read"
    THEN l.writer # {}
    ELSE l.writer # {} \/ l.readers # {}

\* read() / write() returns the guard
Grant(t) ==
    /\ pc[t] = "waiting"
    /\ ~lock[req[t].self].poisoned
    /\ ~Blocked(t)
    /\ lock' = [lock EXCEPT ![req[t].self] =
                   IF LockKind(req[t].name) = "read"
                   THEN [@ EXCEPT !.readers = @ \cup {t}]
                   ELSE [@ EXCEPT !.writer = @ \cup {t}]]
    /\ pc' = [pc EXCEPT ![t] = "held"]
    /\ UNCHANGED <<heap, cache, facade, req, res, pre, lastWrite, scen, mt, io>>

NextLive ==
    \/ \E t \in Threads : \E op \in LiveOps : Call(t, op)
    \/ \E t \in Threads : Grant(t)
    \/ \E t \in Threads : Body(t)
    \/ \E t \in Threads : ClearStep(t)
    \/ \E t \in Threads : ClearDone(t)
    \/ \E t \in Threads : Return(t)

\* the scheduler runs every thread that stays able to run: a guard that
\* stays available is granted, a method under the guard runs to its return.
\* A thread need not call again.
Fairness ==
    \A t \in Threads :
        /\ WF_vars(Grant(t))
        /\ WF_vars(Body(t))
        /\ WF_vars(ClearDone(t))
        /\ WF_vars(Return(t))

SpecLive == Init /\ [][NextLive]_vars /\ Fairness

\* ------------------------------------------------------- Command, Response
Command_Get(key) == [cmd |-> "Get", key |-> key, value |-> ""]
Command_Set(key, value) == [cmd |-> "Set", key |-> key, value |-> value]
Command_Del(key) == [cmd |-> "Del", key |-> key, value |-> ""]
Command_Exists(key) == [cmd |-> "Exists", key |-> key, value |-> ""]
Command_Keys == [cmd |-> "Keys", key |-> "", value |-> ""]
Command_Flush == [cmd |-> "Flush", key |-> "", value |-> ""]
Command_Size == [cmd |-> "Size", key |-> "", value |-> ""]
Command_Ping == [cmd |-> "Ping", key |-> "", value |-> ""]
Commands ==
    {Command_Get(k) : k \in Keys}
    \cup {Command_Set(k, v) : k \in Keys, v \in Values}
    \cup {Command_Del(k) : k \in Keys}
    \cup {Command_Exists(k) : k \in Keys}
    \cup {Command_Keys, Command_Flush, Command_Size, Command_Ping}

Response_String(s) == [tag |-> "String", val |-> s]
Response_StringOption(o) == [tag |-> "StringOption", val |-> o]
Response_Boolean(b) == [tag |-> "Boolean", val |-> b]
Response_Number(n) == [tag |-> "Number", val |-> n]
Response_StringArray(a) == [tag |-> "StringArray", val |-> a]
Response_Ok == [tag |-> "Ok", val |-> ""]
Response_Error(e) == [tag |-> "Error", val |-> e]

\* --------------------------------------------------------- RustdisProtocol
\* RustdisProtocol::new(cache) / RustdisApi::new(cache): the handle is moved in
RustdisProtocol_new(h) == h
RustdisApi_new(h) == RustdisProtocol_new(h)

\* variant: the Err arm answers Response::Ok
execute_Err_Swallow(r) == Response_Ok
\* the Err(e) arm of every branch of execute
execute_Err(r) == Response_Error(r.val)

\* a call of a store method, as execute makes it
StoreCall(name, key, value) == [name |-> name, key |-> key, value |-> value]

\* execute: one branch per Command variant; each yields the Response, the
\* map the store method leaves, and the store calls made
execute_Get(key, data) ==
    LET r == get(data, key) IN
    [resp |-> IF r.res.ok THEN Response_StringOption(r.res.val)
              ELSE execute_Err(r.res),
     data |-> r.data,
     calls |-> <<StoreCall("get", key, "")>>]
execute_Set(key, value, data) ==
    LET r == set(data, key, value) IN
    [resp |-> IF r.res.ok THEN Response_Ok ELSE execute_Err(r.res),
     data |-> r.data,
     calls |-> <<StoreCall("set", key, value)>>]
\* variant: the Del branch calls exists
execute_Del_CallsExists(key, data) ==
    LET r == exists(data, key) IN
    [resp |-> IF r.res.ok THEN Response_Boolean(r.res.val)
              ELSE execute_Err(r.res),
     data |-> r.data,
     calls |-> <<StoreCall("exists", key, "")>>]
execute_Del(key, data) ==
    LET r == del(data, key) IN
    [resp |-> IF r.res.ok THEN Response_Boolean(r.res.val)
              ELSE execute_Err(r.res),
     data |-> r.data,
     calls |-> <<StoreCall("del", key, "")>>]
execute_Exists(key, data) ==
    LET r == exists(data, key) IN
    [resp |-> IF r.res.ok THEN Response_Boolean(r.res.val)
              ELSE execute_Err(r.res),
     data |-> r.data,
     calls |-> <<StoreCall("exists", key, "")>>]
execute_Keys(data) ==
    {[resp |-> IF r.res.ok THEN Response_StringArray(r.res.val)
               ELSE execute_Err(r.res),
      data |-> r.data,
      calls |-> <<StoreCall("keys", "", "")>>] : r \in keys(data)}
execute_Flush(data) ==
    LET r == flush(data) IN
    [resp |-> IF r.res.ok THEN Response_Ok ELSE execute_Err(r.res),
     data |-> r.data,
     calls |-> <<StoreCall("flush", "", "")>>]
\* variant: the Size branch calls keys and counts them
execute_Size_ViaKeys(data) ==
    LET r == CHOOSE r \in keys(data) : TRUE IN
    [resp |-> IF r.res.ok THEN Response_Number(Len(r.res.val))
              ELSE execute_Err(r.res),
     data |-> r.data,
     calls |-> <<StoreCall("keys", "", "")>>]
execute_Size(data) ==
    LET r == size(data) IN
    [resp |-> IF r.res.ok THEN Response_Number(r.res.val)
              ELSE execute_Err(r.res),
     data |-> r.data,
     calls |-> <<StoreCall("size", "", "")>>]
\* variant: the Ping branch answers Response::Ok
execute_Ping_Ok(data) == [resp |-> Response_Ok, data |-> data, calls |-> <<>>]
execute_Ping(data) ==
    [resp |-> Response_String("PONG"), data |-> data, calls |-> <<>>]

execute(command, data) ==
    CASE command.cmd = "Get" -> {execute_Get(command.key, data)}
      [] command.cmd = "Set" -> {execute_Set(command.key, command.value, data)}
      [] command.cmd = "Del" -> {execute_Del(command.key, data)}
      [] command.cmd = "Exists" -> {execute_Exists(command.key, data)}
      [] command.cmd = "Keys" -> execute_Keys(data)
      [] command.cmd = "Flush" -> {execute_Flush(data)}
      [] command.cmd = "Size" -> {execute_Size(data)}
      [] command.cmd = "Ping" -> {execute_Ping(data)}

\* the store method a Command variant stands for
MethodOf(command) ==
    CASE command.cmd = "Get" -> "get"
      [] command.cmd = "Set" -> "set"
      [] command.cmd = "Del" -> "del"
      [] command.cmd = "Exists" -> "exists"
      [] command.cmd = "Keys" -> "keys"
      [] command.cmd = "Flush" -> "flush"
      [] command.cmd = "Size" -> "size"
      [] command.cmd = "Ping" -> "ping"

\* the scenario of section 8 and the Responses it lists
Script ==
    <<Command_Set("nome", "Lucas"), Command_Get("nome"), Command_Exists("nome"),
      Command_Del("nome"), Command_Keys, Command_Size>>
Expected ==
    <<Response_Ok, Response_StringOption(Some("Lucas")), Response_Boolean(TRUE),
      Response_Boolean(TRUE), Response_StringArray(<<>>), Response_Number(0)>>

\* ------------------------------------ one thread, the facade and the handle
\* let api = RustdisApi::new(cache.clone())
NewApi ==
    /\ facade = NoHandle
    /\ LET c == clone(cache, heap) IN
         /\ facade' = RustdisApi_new(c.handle)
         /\ heap' = c.heap
         /\ lock' = [a \in DOMAIN c.heap |-> FreeLock]
    /\ UNCHANGED <<cache, pc, req, res, pre, lastWrite, scen, mt, io>>

\* self.protocol.execute(command): the whole call, the guard taken and dropped
Execute(command) ==
    /\ facade # NoHandle
    /\ \E o \in execute(command, heap[facade.data]) :
         /\ heap' = [heap EXCEPT ![facade.data] = o.data]
         /\ res' = [res EXCEPT ![0] = o.resp]
    /\ req' = [req EXCEPT ![0] =
                 [name |-> MethodOf(command), key |-> command.key,
                  value |-> command.value, self |-> facade.data, via |-> "api"]]
    /\ pre' = [pre EXCEPT ![0] = [last |-> lastWrite, data |-> heap[facade.data]]]
    /\ lastWrite' = Written(req'[0], lastWrite)
    /\ pc' = [pc EXCEPT ![0] = "returned"]
    /\ scen' = IF scen >= 0 /\ scen < Len(Script) /\ command = Script[scen + 1]
               THEN scen + 1 ELSE -1
    /\ UNCHANGED <<lock, cache, facade, mt, io>>

\* a method called on the original handle: the whole call
Direct(op) ==
    /\ op.self = cache.data
    /\ \E o \in Outcomes(op, heap[op.self]) :
         /\ heap' = [heap EXCEPT ![op.self] = o.data]
         /\ res' = [res EXCEPT ![0] = o.res]
    /\ req' = [req EXCEPT ![0] = op]
    /\ pre' = [pre EXCEPT ![0] = [last |-> lastWrite, data |-> heap[op.self]]]
    /\ lastWrite' = Written(op, lastWrite)
    /\ pc' = [pc EXCEPT ![0] = "returned"]
    /\ scen' = -1
    /\ UNCHANGED <<lock, cache, facade, mt, io>>

InitProto ==
    /\ heap = RustdisCache_new.heap
    /\ lock = [a \in DOMAIN RustdisCache_new.heap |-> FreeLock]
    /\ cache = RustdisCache_new.handle
    /\ facade = NoHandle
    /\ pc = [t \in {0} |-> "idle"]
    /\ req = [t \in {0} |-> NoReq]
    /\ res = [t \in {0} |-> NoRes]
    /\ pre = [t \in {0} |-> NoPre]
    /\ lastWrite = EmptyMap
    /\ scen = 0
    /\ mt = NoMT
    /\ io = NoIO

NextProto ==
    \/ NewApi
    \/ \E command \in Commands : Execute(command)
    \/ \E op \in CacheOps(cache, "cache") : Direct(op)

SpecProto == InitProto /\ [][NextProto]_vars

\* ------------------------------------ the dispatcher under threads, poison
\* .map_err(|_| anyhow::anyhow!("Failed to acquire .. lock")): what a method
\* returns when read() / write() reports the lock poisoned
LockError(name) ==
    Err(IF LockKind(name) = "read" THEN "Failed to acquire read lock"
        ELSE "Failed to acquire write lock")

\* the method call a Command makes on the handle h, and the Command of a call
MethodCall(h, command) ==
    [name |-> MethodOf(command), key |-> command.key, value |-> command.value,
     self |-> h.data, via |-> "api"]
CommandOf(op) ==
    [cmd |-> CHOOSE c \in {"Get", "Set", "Del", "Exists", "Keys", "Flush", "Size", "Ping"} :
                MethodOf([cmd |-> c]) = op.name,
     key |-> op.key, value |-> op.value]

\* the commands the threads send: every variant, on one key and one value
PoisonCommands ==
    {c \in Commands : c.key \in {"", KeyName(1)} /\ c.value \in {"", ValueName(1)}}

\* execute(command) reaches the store method and the guard is granted
PCall(t, command) ==
    /\ command.cmd # "Ping"
    /\ Acquire(t, MethodCall(facade, command))

\* read() / write() on a poisoned lock: granted like any other, but the
\* result is Err, map_err drops the guard, and execute answers Error
PCallPoisoned(t, command) ==
    /\ pc[t] = "idle"
    /\ command.cmd # "Ping"
    /\ LET op == MethodCall(facade, command)
           l == lock[op.self] IN
         /\ l.poisoned
         /\ l.writer = {}
         /\ LockKind(op.name) = "write" => l.readers = {}
         /\ req' = [req EXCEPT ![t] = op]
         /\ res' = [res EXCEPT ![t] = execute_Err(LockError(op.name))]
         /\ pre' = [pre EXCEPT ![t] = [last |-> lastWrite, data |-> heap[op.self]]]
    /\ pc' = [pc EXCEPT ![t] = "drop"]
    /\ UNCHANGED <<heap, lock, cache, facade, lastWrite, scen, mt, io>>

\* the branch of execute under the guard (everything but clear())
PBody(t) ==
    /\ pc[t] = "held"
    /\ req[t].name # "flush"
    /\ \E o \in execute(CommandOf(req[t]), heap[req[t].self]) :
         /\ heap' = [heap EXCEPT ![req[t].self] = o.data]
         /\ res' = [res EXCEPT ![t] = o.resp]
    /\ pre' = [pre EXCEPT ![t] = [last |-> lastWrite, data |-> heap[req[t].self]]]
    /\ lastWrite' = Written(req[t], lastWrite)
    /\ pc' = [pc EXCEPT ![t] = "drop"]
    /\ UNCHANGED <<lock, cache, facade, req, scen, mt, io>>

\* the Flush branch once clear() is through
PClearDone(t) ==
    /\ pc[t] = "held"
    /\ req[t].name = "flush"
    /\ heap' = [heap EXCEPT ![req[t].self] = execute_Flush(@).data]
    /\ res' = [res EXCEPT ![t] = execute_Flush(heap[req[t].self]).resp]
    /\ pre' = [pre EXCEPT ![t] = [last |-> lastWrite, data |-> heap[req[t].self]]]
    /\ lastWrite' = Written(req[t], lastWrite)
    /\ pc' = [pc EXCEPT ![t] = "drop"]
    /\ UNCHANGED <<lock, cache, facade, req, scen, mt, io>>

\* the Ping branch: no store method is called
PPing(t) ==
    /\ pc[t] = "idle"
    /\ LET o == execute_Ping(heap[facade.data]) IN
         /\ heap' = [heap EXCEPT ![facade.data] = o.data]
         /\ res' = [res EXCEPT ![t] = o.resp]
    /\ req' = [req EXCEPT ![t] = MethodCall(facade, Command_Ping)]
    /\ pre' = [pre EXCEPT ![t] = [last |-> lastWrite, data |-> heap[facade.data]]]
    /\ pc' = [pc EXCEPT ![t] = "drop"]
    /\ UNCHANGED <<lock, cache, facade, lastWrite, scen, mt, io>>

\* a holder of the write guard panics inside insert / remove / clear (the
\* table cannot grow, say): unwinding drops the guard and poisons the lock
Panic(t) ==
    /\ pc[t] = "held"
    /\ LockKind(req[t].name) = "write"
    /\ lock' = [lock EXCEPT ![req[t].self] =
                   [@ EXCEPT !.writer = @ \ {t}, !.poisoned = TRUE]]
    /\ pc' = [pc EXCEPT ![t] = "panicked"]
    /\ UNCHANGED <<heap, cache, facade, req, res, pre, lastWrite, scen, mt, io>>

InitPoison ==
    /\ heap = RustdisCache_new.heap
    /\ lock = [a \in DOMAIN RustdisCache_new.heap |-> FreeLock]
    /\ cache = RustdisCache_new.handle
    /\ facade = RustdisProtocol_new(RustdisCache_new.handle)
    /\ pc = [t \in Threads |-> "idle"]
    /\ req = [t \in Threads |-> NoReq]
    /\ res = [t \in Threads |-> NoRes]
    /\ pre = [t \in Threads |-> NoPre]
    /\ lastWrite = EmptyMap
    /\ scen = 0
    /\ mt = NoMT
    /\ io = NoIO

NextPoison ==
    \/ \E t \in Threads : \E command \in PoisonCommands : PCall(t, command)
    \/ \E t \in Threads : \E command \in PoisonCommands : PCallPoisoned(t, command)
    \/ \E t \in Threads : PBody(t)
    \/ \E t \in Threads : ClearStep(t)
    \/ \E t \in Threads : PClearDone(t)
    \/ \E t \in Threads : PPing(t)
    \/ \E t \in Threads : Panic(t)
    \/ \E t \in Threads : Return(t)

SpecPoison == InitPoison /\ [][NextPoison]_vars

\* --------------------------------------------------- serde_json: the values
\* a JSON text is modelled by the value it denotes; NotJson is a text that
\* denotes none
JNull == [t |-> "null", v |-> ""]
JBool(b) == [t |-> "bool", v |-> b]
JNum(n) == [t |-> "num", v |-> n]
JStr(s) == [t |-> "str", v |-> s]
JArr(a) == [t |-> "arr", v |-> a]
JObj(f) == [t |-> "obj", v |-> f]
NotJson(s) == [t |-> "bad", v |-> s]

\* how serde names the JSON type it did not expect
Unexpected(j) ==
    CASE j.t = "null" -> "null"
      [] j.t = "bool" -> "boolean"
      [] j.t = "num" -> "integer"
      [] j.t = "str" -> "string"
      [] j.t = "arr" -> "sequence"
      [] j.t = "obj" -> "map"

\* str::to_uppercase on the words used here, each as <<lower, Capitalised,
\* UPPER>>; any other word used here has no lowercase letter to change
Spellings ==
    {<<"get", "Get", "GET">>, <<"set", "Set", "SET">>, <<"del", "Del", "DEL">>,
     <<"delete", "Delete", "DELETE">>, <<"exists", "Exists", "EXISTS">>,
     <<"keys", "Keys", "KEYS">>, <<"flush", "Flush", "FLUSH">>,
     <<"flushall", "Flushall", "FLUSHALL">>, <<"size", "Size", "SIZE">>,
     <<"dbsize", "Dbsize", "DBSIZE">>, <<"ping", "Ping", "PING">>,
     <<"help", "Help", "HELP">>, <<"quit", "Quit", "QUIT">>,
     <<"exit", "Exit", "EXIT">>, <<"foo", "Foo", "FOO">>}
Spelt(s) == {w \in Spellings : s \in {w[1], w[2], w[3]}}
to_uppercase(s) == IF Spelt(s) # {} THEN (CHOOSE w \in Spelt(s) : TRUE)[3] ELSE s

\* ------------------------------------------------ Command: serde derives
VariantNames == {"Get", "Set", "Del", "Exists", "Keys", "Flush", "Size", "Ping"}
StructVariants == {"Get", "Set", "Del", "Exists"}
\* #[serde(rename_all = "UPPERCASE")]
rename_all(variant) == to_uppercase(variant)

\* variant: internally tagged, the fields beside the tag
Command_serialize_Flat(c) ==
    IF c.cmd = "Set"
    THEN JObj([key |-> JStr(c.key), value |-> JStr(c.value),
               command |-> JStr(rename_all(c.cmd))])
    ELSE IF c.cmd \in StructVariants
    THEN JObj([key |-> JStr(c.key), command |-> JStr(rename_all(c.cmd))])
    ELSE JObj([command |-> JStr(rename_all(c.cmd))])
\* derive(Serialize) with tag = "command", content = "args": a unit variant
\* has no content
Command_serialize(c) ==
    IF c.cmd = "Set"
    THEN JObj([command |-> JStr(rename_all(c.cmd)),
               args |-> JObj([key |-> JStr(c.key), value |-> JStr(c.value)])])
    ELSE IF c.cmd \in StructVariants
    THEN JObj([command |-> JStr(rename_all(c.cmd)),
               args |-> JObj([key |-> JStr(c.key)])])
    ELSE JObj([command |-> JStr(rename_all(c.cmd))])

\* variant: the tag is uppercased before it is matched
VariantOf_AnyCase(tag) == {n \in VariantNames : rename_all(n) = to_uppercase(tag)}
\* the variants whose renamed identifier is the tag: an exact match
VariantOf(tag) == {n \in VariantNames : rename_all(n) = tag}

\* the content of a struct variant: fields by name, unknown fields ignored
Command_args(variant, a) ==
    LET need == IF variant = "Set" THEN <<"key", "value">> ELSE <<"key">>
        wrong == {i \in DOMAIN need : need[i] \in DOMAIN a.v /\ a.v[need[i]].t # "str"}
        missing == {i \in DOMAIN need : need[i] \notin DOMAIN a.v}
        First(S) == CHOOSE i \in S : \A j \in S : i <= j
    IN
    IF a.t # "obj"
    THEN Err("invalid type: " \o Unexpected(a) \o ", expected struct variant Command::"
             \o variant)
    ELSE IF wrong # {}
    THEN Err("invalid type: " \o Unexpected(a.v[need[First(wrong)]])
             \o ", expected a string")
    ELSE IF missing # {}
    THEN Err("missing field '" \o need[First(missing)] \o "'")
    ELSE Ok([cmd |-> variant, key |-> a.v.key.v,
             value |-> IF variant = "Set" THEN a.v.value.v ELSE ""])

\* derive(Deserialize) through serde_json::from_str (messages without the
\* line and column)
Command_deserialize(j) ==
    IF j.t = "bad" THEN Err("EOF while parsing a value")
    ELSE IF j.t # "obj"
    THEN Err("invalid type: " \o Unexpected(j)
             \o ", expected adjacently tagged enum Command")
    ELSE IF "command" \notin DOMAIN j.v THEN Err("missing field 'command'")
    ELSE IF j.v.command.t # "str"
    THEN Err("invalid type: " \o Unexpected(j.v.command)
             \o ", expected variant identifier")
    ELSE IF VariantOf(j.v.command.v) = {}
    THEN Err("unknown variant '" \o j.v.command.v \o "', expected one of "
             \o "'GET', 'SET', 'DEL', 'EXISTS', 'KEYS', 'FLUSH', 'SIZE', 'PING'")
    ELSE LET variant == CHOOSE n \in VariantOf(j.v.command.v) : TRUE IN
         IF variant \notin StructVariants
         THEN Ok([cmd |-> variant, key |-> "", value |-> ""])
         ELSE IF "args" \notin DOMAIN j.v THEN Err("missing field 'args'")
         ELSE Command_args(variant, j.v.args)

parse_command(input) == Command_deserialize(input)

\* ----------------------------------------------- Response: serde derives
\* variant: None is written as the empty string
Option_serialize_Empty(o) == JStr(IF o.some THEN o.val ELSE "")
\* Option<String>: Some(s) as the string, None as null
Option_serialize(o) == IF o.some THEN JStr(o.val) ELSE JNull

\* derive(Serialize) with untagged: the payload alone; a unit variant is
\* written as unit, which serde_json writes as null
Response_serialize(r) ==
    CASE r.tag = "String" -> JStr(r.val)
      [] r.tag = "StringOption" -> Option_serialize(r.val)
      [] r.tag = "Boolean" -> JBool(r.val)
      [] r.tag = "Number" -> JNum(r.val)
      [] r.tag = "StringArray" -> JArr([i \in DOMAIN r.val |-> JStr(r.val[i])])
      [] r.tag = "Ok" -> JNull
      [] r.tag = "Error" -> JObj([error |-> JStr(r.val)])

response_to_json(response) == Ok(Response_serialize(response))

NoMatch == Err("data did not match any variant of untagged enum Response")
Try_String(j) == IF j.t = "str" THEN Ok(Response_String(j.v)) ELSE NoMatch
Try_StringOption(j) ==
    IF j.t = "null" THEN Ok(Response_StringOption(None))
    ELSE IF j.t = "str" THEN Ok(Response_StringOption(Some(j.v)))
    ELSE NoMatch
Try_Boolean(j) == IF j.t = "bool" THEN Ok(Response_Boolean(j.v)) ELSE NoMatch
Try_Number(j) ==
    IF j.t = "num" THEN IF j.v >= 0 THEN Ok(Response_Number(j.v)) ELSE NoMatch
    ELSE NoMatch
Try_StringArray(j) ==
    IF j.t = "arr"
    THEN IF \A i \in DOMAIN j.v : j.v[i].t = "str"
         THEN Ok(Response_StringArray([i \in DOMAIN j.v |-> j.v[i].v]))
         ELSE NoMatch
    ELSE NoMatch
Try_Ok(j) == IF j.t = "null" THEN Ok(Response_Ok) ELSE NoMatch
Try_Error(j) ==
    IF j.t = "obj"
    THEN IF "error" \in DOMAIN j.v
         THEN IF j.v.error.t = "str" THEN Ok(Response_Error(j.v.error.v))
              ELSE NoMatch
         ELSE NoMatch
    ELSE NoMatch

\* variant: StringOption declared before String
Attempts_OptionFirst(j) ==
    <<Try_StringOption(j), Try_String(j), Try_Boolean(j), Try_Number(j),
      Try_StringArray(j), Try_Ok(j), Try_Error(j)>>
\* the variants in declaration order
Attempts(j) ==
    <<Try_String(j), Try_StringOption(j), Try_Boolean(j), Try_Number(j),
      Try_StringArray(j), Try_Ok(j), Try_Error(j)>>

\* derive(Deserialize) with untagged: the first variant that accepts
Response_deserialize(j) ==
    LET a == Attempts(j)
        ok == {i \in DOMAIN a : a[i].ok} IN
    IF ok = {} THEN NoMatch
    ELSE a[CHOOSE i \in ok : \A k \in ok : i <= k]

\* ---------------------------------------------------------- RustdisApi
\* variant: the Err arm propagates the parse error with ?
api_parse_failed_Propagate(e, data) ==
    [parsed |-> e, resp |-> Response_Error(e.val), data |-> data,
     calls |-> <<>>, out |-> e]
\* the Err(e) arm of api_execute_command
api_parse_failed(e, data) ==
    [parsed |-> e, resp |-> Response_Error(e.val), data |-> data,
     calls |-> <<>>, out |-> response_to_json(Response_Error(e.val))]

\* api_get, api_set, ..: build the Command, execute, render
api_method(command, data) ==
    {[parsed |-> Ok(command), resp |-> o.resp, data |-> o.data,
      calls |-> o.calls, out |-> response_to_json(o.resp)] :
        o \in execute(command, data)}

api_execute_command(json_command, data) ==
    LET p == parse_command(json_command) IN
    IF p.ok THEN api_method(p.val, data) ELSE {api_parse_failed(p, data)}

\* ---------------------------------------------------------- RustdisCli
\* a line is the sequence of its whitespace-separated tokens
Rejected(message, data) ==
    [parsed |-> Err(message), resp |-> Response_Error(message), data |-> data,
     calls |-> <<>>]
Accepted(command, data) ==
    {[parsed |-> Ok(command), resp |-> o.resp, data |-> o.data,
      calls |-> o.calls] : o \in execute(command, data)}

parse_simple_command(parts, data) ==
    IF parts = <<>> THEN {Rejected("Empty command", data)}
    ELSE
    LET word == to_uppercase(parts[1]) IN
    CASE word = "GET" ->
           IF Len(parts) # 2
           THEN {Rejected("GET requires exactly one argument: GET <key>", data)}
           ELSE Accepted(Command_Get(parts[2]), data)
      [] word = "SET" ->
           IF Len(parts) # 3
           THEN {Rejected("SET requires exactly two arguments: SET <key> <value>", data)}
           ELSE Accepted(Command_Set(parts[2], parts[3]), data)
      [] word \in {"DEL", "DELETE"} ->
           IF Len(parts) # 2
           THEN {Rejected("DEL requires exactly one argument: DEL <key>", data)}
           ELSE Accepted(Command_Del(parts[2]), data)
      [] word = "EXISTS" ->
           IF Len(parts) # 2
           THEN {Rejected("EXISTS requires exactly one argument: EXISTS <key>", data)}
           ELSE Accepted(Command_Exists(parts[2]), data)
      [] word = "KEYS" -> Accepted(Command_Keys, data)
      [] word \in {"FLUSH", "FLUSHALL"} -> Accepted(Command_Flush, data)
      [] word \in {"SIZE", "DBSIZE"} -> Accepted(Command_Size, data)
      [] word = "PING" -> Accepted(Command_Ping, data)
      [] OTHER -> {Rejected("Unknown command: " \o parts[1], data)}

\* the lines print_response writes
print_response(response) ==
    CASE response.tag = "String" -> <<response.val>>
      [] response.tag = "StringOption" ->
           IF response.val.some THEN <<"\"" \o response.val.val \o "\"">>
           ELSE <<"(nil)">>
      [] response.tag = "Boolean" -> <<IF response.val THEN "1" ELSE "0">>
      [] response.tag = "Number" -> <<ToString(response.val)>>
      [] response.tag = "StringArray" ->
           IF Len(response.val) = 0 THEN <<"(empty array)">>
           ELSE [i \in DOMAIN response.val |->
                    ToString(i) \o ") \"" \o response.val[i] \o "\""]
      [] response.tag = "Ok" -> <<"OK">>
      [] response.tag = "Error" -> <<"Error: " \o response.val>>

\* the branch of run for input that starts with '{'
run_json(input, data) ==
    LET p == parse_command(input) IN
    IF p.ok THEN Accepted(p.val, data)
    ELSE {Rejected("Invalid JSON: " \o p.val, data)}

\* ------------------------------------------- the inputs of the front ends
MaxArgs == 3

\* the Commands the front ends are given: every variant and key, one value
FrontCommands == {c \in Commands : c.value \in {"", ValueName(1)}}

\* a structured input with its discriminator in the k-th spelling
Respelt(j, k) ==
    JObj([j.v EXCEPT !.command = JStr((CHOOSE w \in Spelt(j.v.command.v) : TRUE)[k])])

\* structured inputs that are no Command, written with a key and a value
Malformed(key, value) ==
    <<NotJson("{\"command\":"),
      JObj(EmptyMap),
      JObj([args |-> JObj([key |-> JStr(key)])]),
      JObj([command |-> JNum(1)]),
      JObj([command |-> JStr("FOO")]),
      JObj([command |-> JStr("DELETE"), args |-> JObj([key |-> JStr(key)])]),
      JObj([command |-> JStr("GET")]),
      JObj([command |-> JStr("GET"), args |-> JObj(EmptyMap)]),
      JObj([command |-> JStr("GET"), args |-> JObj([key |-> JNum(1)])]),
      JObj([command |-> JStr("DEL"), args |-> JStr(key)]),
      JObj([command |-> JStr("SET"), args |-> JObj([key |-> JStr(key)])]),
      JObj([command |-> JStr("SET"),
            args |-> JObj([key |-> JStr(key), value |-> JNull])]),
      JObj([command |-> JStr("SET"), args |-> JObj([value |-> JStr(value)])]),
      JStr("GET"),
      JNull>>
\* those of them that are texts starting with '{'
Braced(inputs) == {i \in DOMAIN inputs : inputs[i].t \in {"obj", "bad"}}

\* lines: a first token in any spelling, or a key, then up to MaxArgs arguments
FirstTokens == UNION {{w[1], w[2], w[3]} : w \in Spellings} \cup {KeyName(1)}
Args(n) == [i \in 1..n |-> IF i = 1 THEN KeyName(1) ELSE ValueName(1)]
Lines == {<<>>} \cup {<<f>> \o Args(n) : f \in FirstTokens, n \in 0..MaxArgs}

\* ------------------------------------------------------ front-end steps
\* api_get, api_set, api_del, api_exists, api_keys, api_flush, api_size,
\* api_ping
ApiMethod(command) ==
    /\ \E o \in api_method(command, heap[facade.data]) :
         /\ heap' = [heap EXCEPT ![facade.data] = o.data]
         /\ io' = [via |-> "api_method", command |-> command, input |-> JNull,
                   parsed |-> o.parsed, resp |-> o.resp, calls |-> o.calls,
                   out |-> o.out, before |-> heap[facade.data]]
    /\ UNCHANGED <<lock, cache, facade, pc, req, res, pre, lastWrite, scen, mt>>

\* a client serializes a Command, posts it to api_execute_command and
\* deserializes the answer
ApiSend(command) ==
    /\ \E o \in api_execute_command(Command_serialize(command), heap[facade.data]) :
         /\ heap' = [heap EXCEPT ![facade.data] = o.data]
         /\ io' = [via |-> "api_send", command |-> command,
                   input |-> Command_serialize(command),
                   parsed |-> o.parsed, resp |-> o.resp, calls |-> o.calls,
                   out |-> o.out, before |-> heap[facade.data],
                   decoded |-> IF o.out.ok THEN Response_deserialize(o.out.val)
                               ELSE o.out]
    /\ UNCHANGED <<lock, cache, facade, pc, req, res, pre, lastWrite, scen, mt>>

\* api_execute_command on a text written by hand
ApiExecuteCommand(json_command) ==
    /\ \E o \in api_execute_command(json_command, heap[facade.data]) :
         /\ heap' = [heap EXCEPT ![facade.data] = o.data]
         /\ io' = [via |-> "api_execute_command", input |-> json_command,
                   parsed |-> o.parsed, resp |-> o.resp, calls |-> o.calls,
                   out |-> o.out, before |-> heap[facade.data]]
    /\ UNCHANGED <<lock, cache, facade, pc, req, res, pre, lastWrite, scen, mt>>

\* run: one line that starts with '{'
CliJson(input) ==
    /\ pc[0] = "idle"
    /\ \E o \in run_json(input, heap[facade.data]) :
         /\ heap' = [heap EXCEPT ![facade.data] = o.data]
         /\ io' = [via |-> "cli_json", input |-> input,
                   parsed |-> o.parsed, resp |-> o.resp, calls |-> o.calls,
                   out |-> print_response(o.resp), before |-> heap[facade.data]]
    /\ UNCHANGED <<lock, cache, facade, pc, req, res, pre, lastWrite, scen, mt>>

\* run: an empty line, quit, exit or help
CliMeta(parts) ==
    /\ pc[0] = "idle"
    /\ parts \in {<<>>, <<"quit">>, <<"exit">>, <<"help">>}
    /\ pc' = [pc EXCEPT ![0] = IF parts \in {<<"quit">>, <<"exit">>}
                                THEN "exited" ELSE "idle"]
    /\ io' = [via |-> "cli_meta", input |-> parts,
              out |-> IF parts = <<>> THEN <<>>
                      ELSE IF parts = <<"help">> THEN <<"Available commands:">>
                      ELSE <<"Goodbye!">>,
              before |-> heap[facade.data]]
    /\ UNCHANGED <<heap, lock, cache, facade, req, res, pre, lastWrite, scen, mt>>

\* run: any other line goes to parse_simple_command and print_response
CliLine(parts) ==
    /\ pc[0] = "idle"
    /\ parts \notin {<<>>, <<"quit">>, <<"exit">>, <<"help">>}
    /\ \E o \in parse_simple_command(parts, heap[facade.data]) :
         /\ heap' = [heap EXCEPT ![facade.data] = o.data]
         /\ io' = [via |-> "cli_line", input |-> parts,
                   parsed |-> o.parsed, resp |-> o.resp, calls |-> o.calls,
                   out |-> print_response(o.resp), before |-> heap[facade.data]]
    /\ UNCHANGED <<lock, cache, facade, pc, req, res, pre, lastWrite, scen, mt>>

InitFront ==
    /\ heap = RustdisCache_new.heap
    /\ lock = [a \in DOMAIN RustdisCache_new.heap |-> FreeLock]
    /\ cache = RustdisCache_new.handle
    /\ facade = RustdisApi_new(RustdisCache_new.handle)
    /\ pc = [t \in {0} |-> "idle"]
    /\ req = [t \in {0} |-> NoReq]
    /\ res = [t \in {0} |-> NoRes]
    /\ pre = [t \in {0} |-> NoPre]
    /\ lastWrite = EmptyMap
    /\ scen = 0
    /\ mt = NoMT
    /\ io = NoIO

NextFront ==
    \/ \E command \in FrontCommands : ApiMethod(command)
    \/ \E command \in FrontCommands : ApiSend(command)
    \/ \E command \in FrontCommands : \E k \in {1, 2} :
         ApiExecuteCommand(Respelt(Command_serialize(command), k))
    \/ \E i \in DOMAIN Malformed(KeyName(1), ValueName(1)) :
         ApiExecuteCommand(Malformed(KeyName(1), ValueName(1))[i])
    \/ \E command \in FrontCommands : \E k \in {1, 2, 3} :
         CliJson(Respelt(Command_serialize(command), k))
    \/ \E i \in Braced(Malformed(KeyName(1), ValueName(1))) :
         CliJson(Malformed(KeyName(1), ValueName(1))[i])
    \/ \E parts \in Lines : CliMeta(parts)
    \/ \E parts \in Lines : CliLine(parts)

SpecFront == InitFront /\ [][NextFront]_vars

\* -------------------------------------------------------------- main
\* One run of the binary with a single-shot subcommand.  The store lives in
\* the memory of the process: hp is what the run before had in memory.
\* variant: the store of the run before is found again (a persisted store)
main_cache_Reuse(hp) == [handle |-> RustdisCache_new.handle, heap |-> hp]
main_cache(hp) == RustdisCache_new

\* let result = api.api_..()?; println!("{}", result); Ok(())
main_println(result) ==
    IF result.ok THEN [stdout |-> <<result.val>>, code |-> 0]
    ELSE [stdout |-> <<>>, code |-> 1]

\* rustdis get <key> | set <key> <value> | del <key> | exists <key> | keys |
\* flush | size | ping
Main(command) ==
    LET c == main_cache(heap) IN
    /\ \E o \in api_method(command, c.heap[c.handle.data]) :
         /\ heap' = [c.heap EXCEPT ![c.handle.data] = o.data]
         /\ io' = [via |-> "main", command |-> command, resp |-> o.resp,
                   calls |-> o.calls, before |-> c.heap[c.handle.data],
                   executed |-> <<o.parsed.val>>,
                   stdout |-> main_println(o.out).stdout,
                   code |-> main_println(o.out).code]
    /\ cache' = c.handle
    /\ facade' = RustdisApi_new(c.handle)
    /\ lastWrite' = Written(MethodCall(RustdisApi_new(c.handle), command), lastWrite)
    /\ pc' = [pc EXCEPT ![0] = "exited"]
    /\ UNCHANGED <<lock, req, res, pre, scen, mt>>

\* rustdis api-docs: the documentation text, no Command
MainApiDocs ==
    LET c == main_cache(heap) IN
    /\ heap' = c.heap
    /\ io' = [via |-> "main_docs", calls |-> <<>>, before |-> c.heap[c.handle.data],
              executed |-> <<>>,
              stdout |-> <<"# Rustdis API Documentation">>, code |-> 0]
    /\ cache' = c.handle
    /\ facade' = RustdisApi_new(c.handle)
    /\ pc' = [pc EXCEPT ![0] = "exited"]
    /\ UNCHANGED <<lock, req, res, pre, lastWrite, scen, mt>>

NextMain ==
    \/ \E command \in Commands : Main(command)
    \/ MainApiDocs

\* lastWrite keeps what the runs so far have executed
SpecMain == InitFront /\ [][NextMain]_vars

\* --------------------------------------------------- RustdisCli::run
\* The loop of run over a whole standard input.  What read_line yields is a
\* line of tokens (a token " " is white space at an end of the line), a
\* structured text, or an error for bytes that are not UTF-8.
MaxLines == 3

Line(parts) == [t |-> "line", v |-> parts]
ReadError == [t |-> "err", v |-> "stream did not contain valid UTF-8"]

StdinLines ==
    {Line(<<>>), Line(<<" ">>), Line(<<"help">>),
     Line(<<"quit">>), Line(<<"exit">>), Line(<<"QUIT">>),
     Line(<<"quit", " ">>), Line(<<" ", "exit">>),
     Line(<<"SET", KeyName(1), ValueName(1)>>), Line(<<"SET", KeyName(1)>>),
     Line(<<"GET", KeyName(1)>>), Line(<<"FLUSH">>),
     Command_serialize(Command_Del(KeyName(1))),
     NotJson("{\"command\":"),
     ReadError}
Stdin == UNION {[1..n -> StdinLines] : n \in 0..MaxLines}

\* line.trim()
trim(parts) ==
    LET ink == {i \in DOMAIN parts : parts[i] # " "} IN
    IF ink = {} THEN <<>>
    ELSE SubSeq(parts, CHOOSE i \in ink : \A j \in ink : i <= j,
                       CHOOSE i \in ink : \A j \in ink : i >= j)

\* variant: only quit leaves the loop
is_quit_QuitOnly(input) == input = <<"quit">>
\* input == "quit" || input == "exit"
is_quit(input) == input \in {<<"quit">>, <<"exit">>}

\* one turn of the loop on what read_line has read
run_step(line, data) ==
    IF line.t = "err"
    THEN {[input |-> line, data |-> data, calls |-> <<>>,
           out |-> <<"Error reading input: " \o line.v>>,
           executed |-> <<>>, stop |-> TRUE]}
    ELSE IF line.t # "line"
    THEN {[input |-> line, data |-> o.data, calls |-> o.calls,
           out |-> print_response(o.resp),
           executed |-> IF o.parsed.ok THEN <<o.parsed.val>> ELSE <<>>,
           stop |-> FALSE] : o \in run_json(line, data)}
    ELSE LET input == trim(line.v) IN
         IF input = <<>>
         THEN {[input |-> line, data |-> data, calls |-> <<>>, out |-> <<>>,
                executed |-> <<>>, stop |-> FALSE]}
         ELSE IF is_quit(input)
         THEN {[input |-> line, data |-> data, calls |-> <<>>,
                out |-> <<"Goodbye!">>, executed |-> <<>>, stop |-> TRUE]}
         ELSE IF input = <<"help">>
         THEN {[input |-> line, data |-> data, calls |-> <<>>,
                out |-> <<"Available commands:">>, executed |-> <<>>,
                stop |-> FALSE]}
         ELSE {[input |-> line, data |-> o.data, calls |-> o.calls,
                out |-> print_response(o.resp),
                executed |-> IF o.parsed.ok THEN <<o.parsed.val>> ELSE <<>>,
                stop |-> FALSE] : o \in parse_simple_command(input, data)}

\* read_line yields the next line: Ok(_) or Err(e)
RunLine ==
    /\ pc[0] = "idle"
    /\ io.pos < Len(io.stdin)
    /\ \E o \in run_step(io.stdin[io.pos + 1], heap[facade.data]) :
         /\ heap' = [heap EXCEPT ![facade.data] = o.data]
         /\ io' = [via |-> "run", stdin |-> io.stdin, pos |-> io.pos + 1,
                   log |-> Append(io.log,
                                  [input |-> o.input, calls |-> o.calls,
                                   out |-> o.out, executed |-> o.executed])]
         /\ pc' = [pc EXCEPT ![0] = IF o.stop THEN "exited" ELSE "idle"]
    /\ UNCHANGED <<lock, cache, facade, req, res, pre, lastWrite, scen, mt>>

\* read_line yields Ok(0): end of input
RunEof ==
    /\ pc[0] = "idle"
    /\ io.pos = Len(io.stdin)
    /\ pc' = [pc EXCEPT ![0] = "exited"]
    /\ UNCHANGED <<heap, lock, cache, facade, req, res, pre, lastWrite, scen, mt, io>>

InitRepl ==
    /\ heap = RustdisCache_new.heap
    /\ lock = [a \in DOMAIN RustdisCache_new.heap |-> FreeLock]
    /\ cache = RustdisCache_new.handle
    /\ facade = RustdisProtocol_new(RustdisCache_new.handle)
    /\ pc = [t \in {0} |-> "idle"]
    /\ req = [t \in {0} |-> NoReq]
    /\ res = [t \in {0} |-> NoRes]
    /\ pre = [t \in {0} |-> NoPre]
    /\ lastWrite = EmptyMap
    /\ scen = 0
    /\ mt = NoMT
    /\ io \in {[via |-> "run", stdin |-> s, pos |-> 0, log |-> <<>>] : s \in Stdin}

NextRepl ==
    \/ RunLine
    \/ RunEof

SpecRepl == InitRepl /\ [][NextRepl]_vars

\* ------------------------------------- basic_usage.rs: multi-thread example
\* the spawned threads are 0 .. MTThreads-1, main() is thread MTThreads
MTWorkers == 0..(MTThreads - 1)
MTMain == MTThreads
\* format!("thread:{}", i) and format!("valor_{}", i)
ThreadKey(i) == "thread:" \o ToString(i)
ThreadValue(i) == "valor_" \o ToString(i)
CallOn(h, name, key, value) ==
    [name |-> name, key |-> key, value |-> value, self |-> h.data, via |-> "cache"]

\* for i in 0..N { handles.push(thread::spawn(..)) }
MTSpawn ==
    /\ mt.pc = "spawn"
    /\ pc' = [pc EXCEPT ![mt.spawned] = "idle"]
    /\ mt' = [mt EXCEPT !.spawned = @ + 1,
                        !.pc = IF mt.spawned + 1 = MTThreads THEN "join" ELSE "spawn"]
    /\ UNCHANGED <<heap, lock, cache, facade, req, res, pre, lastWrite, scen, io>>

\* the closure: cache_clone.set(format!(..), format!(..)) through the shared Arc
MTWorkerSet(i) ==
    /\ pc[i] = "idle"
    /\ Acquire(i, CallOn(cache, "set", ThreadKey(i), ThreadValue(i)))

\* set returned, unwrap() took the Result and the thread ends
MTWorkerExit(i) ==
    /\ pc[i] = "drop"
    /\ Release(i)
    /\ pc' = [pc EXCEPT ![i] = IF res[i].ok THEN "exited" ELSE "panicked"]
    /\ UNCHANGED <<heap, cache, facade, req, res, pre, lastWrite, scen, mt, io>>

\* for handle in handles { handle.join().unwrap() }
MTJoin ==
    /\ mt.pc = "join"
    /\ pc[mt.joined] = "exited"
    /\ mt' = [mt EXCEPT !.joined = @ + 1,
                        !.pc = IF mt.joined + 1 = MTThreads THEN "keys" ELSE "join"]
    /\ UNCHANGED <<heap, lock, cache, facade, pc, req, res, pre, lastWrite, scen, io>>

\* let chaves = cache.keys().unwrap()
MTKeys ==
    /\ mt.pc = "keys"
    /\ Acquire(MTMain, CallOn(cache, "keys", "", ""))
MTKeysReturn ==
    /\ mt.pc = "keys"
    /\ pc[MTMain] = "drop"
    /\ res[MTMain].ok
    /\ Release(MTMain)
    /\ pc' = [pc EXCEPT ![MTMain] = "idle"]
    /\ mt' = [mt EXCEPT !.chaves = res[MTMain].val, !.idx = 1,
                        !.pc = IF Len(res[MTMain].val) = 0 THEN "done" ELSE "loop"]
    /\ UNCHANGED <<heap, cache, facade, req, res, pre, lastWrite, scen, io>>

\* for chave in chaves { let valor = cache.get(&chave).unwrap() }
MTGet ==
    /\ mt.pc = "loop"
    /\ Acquire(MTMain, CallOn(cache, "get", mt.chaves[mt.idx], ""))
MTGetReturn ==
    /\ mt.pc = "loop"
    /\ pc[MTMain] = "drop"
    /\ res[MTMain].ok
    /\ Release(MTMain)
    /\ pc' = [pc EXCEPT ![MTMain] = "idle"]
    /\ mt' = [mt EXCEPT !.idx = @ + 1,
                        !.pc = IF mt.idx = Len(mt.chaves) THEN "done" ELSE "loop"]
    /\ UNCHANGED <<heap, cache, facade, req, res, pre, lastWrite, scen, io>>

InitMT ==
    /\ heap = RustdisCache_new.heap
    /\ lock = [a \in DOMAIN RustdisCache_new.heap |-> FreeLock]
    /\ cache = RustdisCache_new.handle
    /\ facade = NoHandle
    /\ pc = [t \in MTWorkers \cup {MTMain} |->
                IF t = MTMain THEN "idle" ELSE "unspawned"]
    /\ req = [t \in MTWorkers \cup {MTMain} |-> NoReq]
    /\ res = [t \in MTWorkers \cup {MTMain} |-> NoRes]
    /\ pre = [t \in MTWorkers \cup {MTMain} |-> NoPre]
    /\ lastWrite = EmptyMap
    /\ scen = 0
    /\ mt = [NoMT EXCEPT !.pc = "spawn"]
    /\ io = NoIO

NextMT ==
    \/ MTSpawn
    \/ \E i \in MTWorkers : MTWorkerSet(i)
    \/ \E t \in MTWorkers \cup {MTMain} : Body(t)
    \/ \E i \in MTWorkers : MTWorkerExit(i)
    \/ MTJoin
    \/ MTKeys
    \/ MTKeysReturn
    \/ MTGet
    \/ MTGetReturn

SpecMT == InitMT /\ [][NextMT]_vars

\* ================================================================= claims
\* a call of thread t whose body has run and which has not returned yet
Done(t, name) == pc[t] = "drop" /\ req[t].name = name
\* the threads inside a method that holds the lock for writing / reading
WriteHolders ==
    {t \in DOMAIN pc : pc[t] \in {"held", "drop"}
                        /\ req[t].name \in {"set", "del", "flush"}}
ReadHolders ==
    {t \in DOMAIN pc : pc[t] \in {"held", "drop"}
                        /\ req[t].name \in {"get", "exists", "keys", "size"}}

\* C1: when the most recent write to k is set(k, v), whatever k held before,
\* get(k) returns v and exists(k) returns true.
C1_GetAfterSet ==
    \A t \in DOMAIN pc :
        LET w == LastOf(pre[t].last, req[t].key) IN
        /\ (Done(t, "get") /\ w.kind = "set") => res[t] = Ok(Some(w.val))
        /\ (Done(t, "exists") /\ w.kind = "set") => res[t] = Ok(TRUE)
\* a get of a key whose most recent write is a set
C1_Witness ==
    \E t \in DOMAIN pc :
        Done(t, "get") /\ LastOf(pre[t].last, req[t].key).kind = "set"

\* C2: for a key never set, or whose most recent write was del(k), get(k)
\* returns absent and exists(k) returns false, and neither is an error.
C2_AbsentKey ==
    \A t \in DOMAIN pc :
        LET w == LastOf(pre[t].last, req[t].key) IN
        /\ (Done(t, "get") /\ w.kind \in {"never", "del"}) => res[t] = Ok(None)
        /\ (Done(t, "exists") /\ w.kind \in {"never", "del"}) => res[t] = Ok(FALSE)
\* a get of a key whose most recent write is a del
C2_Witness ==
    \E t \in DOMAIN pc :
        Done(t, "get") /\ LastOf(pre[t].last, req[t].key).kind = "del"

\* C3: del(k) returns true iff k held a value just before the call and the
\* call removed it; the first del(k) after a set(k, _) returns true and a
\* second del(k) with no set(k, _) in between returns false.
C3_DelReturn ==
    \A t \in DOMAIN pc :
        Done(t, "del") =>
            LET k == req[t].key
                w == LastOf(pre[t].last, k) IN
            /\ res[t].ok
            /\ res[t].val <=> (k \in DOMAIN pre[t].data
                               /\ k \notin DOMAIN heap[req[t].self])
            /\ w.kind = "set" => res[t].val = TRUE
            /\ w.kind = "del" => res[t].val = FALSE
\* a second del of the same key with no set in between
C3_Witness ==
    \E t \in DOMAIN pc :
        Done(t, "del") /\ LastOf(pre[t].last, req[t].key).kind = "del"

\* C4: size() is the number of distinct keys present (0 for a fresh store,
\* unchanged by an overwrite); once flush() has completed size() returns 0
\* and keys() returns the empty sequence.
C4_SizeAndFlush ==
    /\ \A t \in DOMAIN pc :
          Done(t, "size") => res[t] = Ok(Cardinality(Present(pre[t].last)))
    /\ WriteHolders = {} =>
          size(heap[cache.data]).res = Ok(Cardinality(Present(lastWrite)))
    /\ \A t \in DOMAIN pc :
          Done(t, "flush") =>
              /\ size(heap[req[t].self]).res = Ok(0)
              /\ \A o \in keys(heap[req[t].self]) : o.res.ok /\ Len(o.res.val) = 0
\* a flush of a store that held keys has completed
C4_Witness ==
    \E t \in DOMAIN pc : Done(t, "flush") /\ Present(pre[t].last) # {}

\* C5: set(k, v) when the most recent write to k was already set(k, v)
\* leaves the whole store as it was and get(k) still returns v; flush() on
\* an empty store leaves it empty and returns success.
C5_Idempotent ==
    \A t \in DOMAIN pc :
        /\ (Done(t, "set")
             /\ LastOf(pre[t].last, req[t].key).kind = "set"
             /\ LastOf(pre[t].last, req[t].key).val = req[t].value)
            => /\ res[t] = Ok(Unit)
               /\ heap[req[t].self] = pre[t].data
               /\ get(heap[req[t].self], req[t].key).res = Ok(Some(req[t].value))
        /\ (Done(t, "flush") /\ Present(pre[t].last) = {})
            => /\ res[t] = Ok(Unit)
               /\ DOMAIN heap[req[t].self] = {}
\* the same set(k, v) executed a second time
C5_Witness ==
    \E t \in DOMAIN pc :
        /\ Done(t, "set")
        /\ LastOf(pre[t].last, req[t].key).kind = "set"
        /\ LastOf(pre[t].last, req[t].key).val = req[t].value

\* C6: N threads each set one of N distinct keys of an empty shared store;
\* under every interleaving each set returns success and the keys() made
\* after all of them returned yields exactly those N keys.
C6_ConcurrentSets ==
    /\ \A i \in MTWorkers :
          pc[i] \in {"drop", "exited", "panicked"} => res[i] = Ok(Unit)
    /\ \A i \in MTWorkers : pc[i] # "panicked"
    /\ mt.pc \in {"loop", "done"} =>
          /\ Len(mt.chaves) = MTThreads
          /\ {mt.chaves[n] : n \in 1..Len(mt.chaves)} = {ThreadKey(i) : i \in MTWorkers}
\* keys() has returned after every thread was joined
C6_Witness ==
    /\ mt.pc \in {"loop", "done"}
    /\ mt.joined = MTThreads
    /\ \A i \in MTWorkers : pc[i] = "exited"

\* C7: at most one of set/del/flush holds the lock, and while one does no
\* get/exists/keys/size holds it; readers may hold it together.
C7_Exclusion ==
    /\ Cardinality(WriteHolders) <= 1
    /\ WriteHolders # {} => ReadHolders = {}
\* two readers hold the lock at the same time
C7_Witness == Cardinality(ReadHolders) >= 2

\* a call made through handle via has returned
Returned(via, name) ==
    pc[0] = "returned" /\ req[0].via = via /\ req[0].name = name

\* C9: a write made through one handle is visible through the other: after
\* a Set(k, v) through the facade built from cache.clone(), get(k) on the
\* original handle returns v (and the other way round).
C9_SharedHandles ==
    LET w == LastOf(pre[0].last, req[0].key) IN
    /\ (Returned("cache", "get") /\ w.kind = "set" /\ w.by = "api")
         => res[0] = Ok(Some(w.val))
    /\ (Returned("api", "get") /\ w.kind = "set" /\ w.by = "cache")
         => res[0] = Response_StringOption(Some(w.val))
\* a get on the original handle of a key last set through the facade
C9_Witness ==
    /\ Returned("cache", "get")
    /\ LastOf(pre[0].last, req[0].key).kind = "set"
    /\ LastOf(pre[0].last, req[0].key).by = "api"

\* the Response the reference map m gives to the call op
RefResponds(op, r, m) ==
    CASE op.name = "get" ->
            r = Response_StringOption(IF op.key \in DOMAIN m THEN Some(m[op.key]) ELSE None)
      [] op.name = "set" -> r = Response_Ok
      [] op.name = "del" -> r = Response_Boolean(op.key \in DOMAIN m)
      [] op.name = "exists" -> r = Response_Boolean(op.key \in DOMAIN m)
      [] op.name = "keys" ->
            /\ r.tag = "StringArray"
            /\ Len(r.val) = Cardinality(DOMAIN m)
            /\ {r.val[i] : i \in 1..Len(r.val)} = DOMAIN m
      [] op.name = "flush" -> r = Response_Ok
      [] op.name = "size" -> r = Response_Number(Cardinality(DOMAIN m))
      [] op.name = "ping" -> TRUE

\* C10: the Responses of any sequence of Commands on an initially empty
\* store are those of a reference map, and the scenario SET nome Lucas,
\* GET nome, EXISTS nome, DEL nome, KEYS, SIZE yields Acknowledged,
\* OptionalText("Lucas"), Flag(true), Flag(true), TextList([]), Count(0).
C10_ReferenceMap ==
    /\ (pc[0] = "returned" /\ req[0].via = "api")
         => RefResponds(req[0], res[0], AbsMap(pre[0].last))
    /\ (scen >= 1) => res[0] = Expected[scen]
\* the whole scenario has been executed
C10_Witness == scen = Len(Script)

\* what the call op returns on the mapping m, by the contract of section 4.1
RefReturns(op, r, m) ==
    CASE op.name = "get" ->
            r = Ok(IF op.key \in DOMAIN m THEN Some(m[op.key]) ELSE None)
      [] op.name = "set" -> r = Ok(Unit)
      [] op.name = "del" -> r = Ok(op.key \in DOMAIN m)
      [] op.name = "exists" -> r = Ok(op.key \in DOMAIN m)
      [] op.name = "keys" ->
            /\ r.ok
            /\ Len(r.val) = Cardinality(DOMAIN m)
            /\ {r.val[i] : i \in 1..Len(r.val)} = DOMAIN m
      [] op.name = "flush" -> r = Ok(Unit)
      [] op.name = "size" -> r = Ok(Cardinality(DOMAIN m))

\* C8: every call returns what it returns in the sequential order in which
\* the bodies took effect, and with no writer inside the mapping is the one
\* that order produces: no call observes a partly applied set, del or flush.
C8_Atomic ==
    /\ \A t \in DOMAIN pc :
          pc[t] = "drop" => RefReturns(req[t], res[t], AbsMap(pre[t].last))
    /\ WriteHolders = {} => heap[cache.data] = AbsMap(lastWrite)
\* keys() or size() has answered after a flush while another call is running
C8_Witness ==
    \E t, u \in DOMAIN pc :
        /\ t # u
        /\ pc[t] = "drop" /\ req[t].name \in {"keys", "size"}
        /\ pc[u] # "idle"
        /\ \E k \in DOMAIN pre[t].last : pre[t].last[k].kind = "flush"

\* C11: Ping returns TextValue("PONG") in every state, also while a writer
\* holds the lock and after the lock was poisoned; it takes no lock and
\* leaves the store as it was.
C11_Ping ==
    /\ [](\A t \in DOMAIN pc : pc[t] = "idle" => ENABLED PPing(t))
    /\ [][\A t \in DOMAIN pc :
            (pc[t] = "idle" /\ pc'[t] = "drop" /\ req'[t].name = "ping")
            => /\ res'[t] = Response_String("PONG")
               /\ heap' = heap
               /\ lock' = lock
               /\ lastWrite' = lastWrite]_vars
\* Ping has answered on a poisoned lock
C11_Witness ==
    \E t \in DOMAIN pc :
        /\ pc[t] = "drop" /\ req[t].name = "ping"
        /\ lock[req[t].self].poisoned
        /\ res[t] = Response_String("PONG")

\* C12: a store call answers Failure exactly when the lock is poisoned; it
\* then holds no guard, carries the lock message, and the mapping is as it
\* was; nothing else makes a store call fail.
C12_PoisonOnly ==
    \A t \in DOMAIN pc :
        (pc[t] = "drop" /\ req[t].name # "ping") =>
            LET l == lock[req[t].self] IN
            /\ (res[t].tag = "Error") <=> l.poisoned
            /\ res[t].tag = "Error" =>
                 /\ res[t].val = LockError(req[t].name).val
                 /\ t \notin l.readers \cup l.writer
                 /\ heap[req[t].self] = pre[t].data
\* a store call has answered Failure
C12_Witness ==
    \E t \in DOMAIN pc :
        pc[t] = "drop" /\ req[t].name # "ping" /\ res[t].tag = "Error"

\* the exchanges of the front ends that carry a structured text
Structured == {"api_send", "api_execute_command", "cli_json"}
\* the exchanges in which a Command was parsed or built
Dispatched ==
    io.via \in {"api_method", "api_send", "api_execute_command", "cli_json", "cli_line"}
    /\ io.parsed.ok

\* C13: a Command of any variant, serialized to the structured form and
\* parsed by parse_command, is the same Command again.
C13_CommandRoundTrip ==
    io.via = "api_send" =>
        /\ io.input = Command_serialize(io.command)
        /\ io.parsed.ok
        /\ io.parsed.val = io.command
\* a Set and its two fields have come back from parse_command
C13_Witness ==
    /\ io.via = "api_send"
    /\ io.command.cmd = "Set"
    /\ io.parsed.ok
    /\ io.parsed.val.key = io.command.key
    /\ io.parsed.val.value = io.command.value

\* C14 as stated: every Response of the six variants, serialized and
\* deserialized (untagged, declaration order), is the same Response again.
C14_Original ==
    (io.via = "api_send"
     /\ io.resp.tag \in {"String", "StringOption", "Boolean", "Number",
                         "StringArray", "Ok"})
    => (io.decoded.ok /\ io.decoded.val = io.resp)
\* C14 as amended: the round trip gives the same Response for TextValue,
\* absent OptionalText, Flag, Count and TextList; a present OptionalText
\* comes back as TextValue with the same text, and Acknowledged does not
\* come back as Acknowledged.
C14_ResponseRoundTrip ==
    io.via = "api_send" =>
        /\ io.decoded.ok
        /\ io.resp.tag \in {"String", "Boolean", "Number", "StringArray"}
             => io.decoded.val = io.resp
        /\ io.resp.tag = "StringOption" =>
             IF io.resp.val.some
             THEN io.decoded.val = Response_String(io.resp.val.val)
             ELSE io.decoded.val = io.resp
        /\ io.resp.tag = "Ok" => io.decoded.val.tag # "Ok"
\* a present OptionalText has come back as TextValue
C14_Witness ==
    /\ io.via = "api_send"
    /\ io.resp.tag = "StringOption"
    /\ io.resp.val.some
    /\ io.decoded.ok
    /\ io.decoded.val.tag = "String"

\* C15: a successful Set or Flush through the API facade is rendered as the
\* JSON string "OK", which differs from the rendering of an absent
\* OptionalText.
C15_AcknowledgedIsOK ==
    (io.via \in {"api_method", "api_send", "api_execute_command"}
     /\ io.parsed.ok
     /\ io.parsed.val.cmd \in {"Set", "Flush"})
    => /\ io.out.ok
       /\ io.out.val = JStr("OK")
       /\ io.out.val # Option_serialize(None)

\* C16: a structured Get renders as JSON null when the key is absent and as
\* the JSON string of the value when it is present; neither is a Failure.
C16_GetRendering ==
    (io.via \in {"api_send", "api_execute_command"}
     /\ io.parsed.ok
     /\ io.parsed.val.cmd = "Get")
    => /\ io.resp.tag # "Error"
       /\ io.out.ok
       /\ io.out.val = IF io.parsed.val.key \in DOMAIN io.before
                       THEN JStr(io.before[io.parsed.val.key])
                       ELSE JNull
\* a structured Get of a missing key on the empty store was rendered as null
C16_Witness ==
    /\ io.via = "api_send"
    /\ io.command.cmd = "Get"
    /\ io.before = EmptyMap
    /\ io.out.ok
    /\ io.out.val = JNull

\* C17 as stated: the discriminator in any letter case decodes to the same
\* Command.
C17_Original ==
    \A c \in FrontCommands : \A k \in {1, 2, 3} :
        (io.via \in Structured /\ io.input = Respelt(Command_serialize(c), k))
        => (io.parsed.ok /\ io.parsed.val = c)
\* C17 as amended: the discriminator is matched exactly: the uppercase name
\* decodes to the Command, any other letter case is a decoding failure that
\* runs nothing; encoding emits the uppercase name.
C17_CaseSensitive ==
    /\ \A c \in FrontCommands : \A k \in {1, 2, 3} :
         (io.via \in Structured /\ io.input = Respelt(Command_serialize(c), k))
         => IF k = 3 THEN io.parsed.ok /\ io.parsed.val = c
            ELSE /\ ~io.parsed.ok
                 /\ io.resp.tag = "Error"
                 /\ io.calls = <<>>
                 /\ heap[facade.data] = io.before
    /\ io.via = "api_send"
         => io.input.v.command.v \in {w[3] : w \in Spellings}
\* a lowercase discriminator was refused
C17_Witness ==
    /\ io.via = "api_execute_command"
    /\ io.input.t = "obj"
    /\ "command" \in DOMAIN io.input.v
    /\ io.input.v.command = JStr("get")
    /\ ~io.parsed.ok

\* C18: structured input with an unknown discriminator or with missing or
\* mistyped fields never reaches execute: api_execute_command returns Ok
\* with the rendering {"error": message}, the REPL prints Error: <message>,
\* and the store is unchanged.
C18_MalformedInput ==
    \A i \in DOMAIN Malformed(KeyName(1), ValueName(1)) :
        (io.via \in Structured /\ io.input = Malformed(KeyName(1), ValueName(1))[i])
        => /\ ~io.parsed.ok
           /\ io.resp = Response_Error(io.parsed.val)
           /\ io.calls = <<>>
           /\ heap[facade.data] = io.before
           /\ io.via = "api_execute_command"
                => /\ io.out.ok
                   /\ io.out.val = JObj([error |-> JStr(io.parsed.val)])
           /\ io.via = "cli_json"
                => io.out = <<"Error: " \o io.parsed.val>>
\* an unknown discriminator was answered on a store that holds a key
C18_Witness ==
    /\ io.via = "api_execute_command"
    /\ io.input = JObj([command |-> JStr("FOO")])
    /\ io.before # EmptyMap
    /\ io.out.ok
    /\ io.out.val.t = "obj"

\* the number of arguments the line form fixes for a first token
Arity(word) ==
    CASE word \in {"GET", "DEL", "DELETE", "EXISTS"} -> 1
      [] word = "SET" -> 2
      [] word \in {"KEYS", "FLUSH", "FLUSHALL", "SIZE", "DBSIZE", "PING"} -> 0
      [] OTHER -> -1
\* C19: a line whose first token is not recognized, or is recognized but
\* followed by another number of arguments than its arity, yields a Failure,
\* runs no store operation and leaves the store unchanged.
C19_LineArity ==
    (io.via = "cli_line"
     /\ Arity(to_uppercase(io.input[1])) # Len(io.input) - 1)
    => /\ io.resp.tag = "Error"
       /\ io.calls = <<>>
       /\ heap[facade.data] = io.before

\* the store call a Command stands for
CallOf(c) ==
    CASE c.cmd = "Get" -> <<StoreCall("get", c.key, "")>>
      [] c.cmd = "Set" -> <<StoreCall("set", c.key, c.value)>>
      [] c.cmd = "Del" -> <<StoreCall("del", c.key, "")>>
      [] c.cmd = "Exists" -> <<StoreCall("exists", c.key, "")>>
      [] c.cmd = "Keys" -> <<StoreCall("keys", "", "")>>
      [] c.cmd = "Flush" -> <<StoreCall("flush", "", "")>>
      [] c.cmd = "Size" -> <<StoreCall("size", "", "")>>
      [] c.cmd = "Ping" -> <<>>
\* C20: execute makes exactly one store call, the one its Command names on
\* the Command's own key and value (none for Ping), and the store is left as
\* that call leaves it.
C20_OneCall ==
    Dispatched =>
        /\ io.calls = CallOf(io.parsed.val)
        /\ Len(io.calls) = IF io.parsed.val.cmd = "Ping" THEN 0 ELSE 1
        /\ heap[facade.data] =
             CASE io.parsed.val.cmd = "Set" ->
                    set(io.before, io.parsed.val.key, io.parsed.val.value).data
               [] io.parsed.val.cmd = "Del" -> del(io.before, io.parsed.val.key).data
               [] io.parsed.val.cmd = "Flush" -> flush(io.before).data
               [] OTHER -> io.before
\* a Size was dispatched on a store that holds a key
C20_Witness ==
    /\ Dispatched
    /\ io.parsed.val.cmd = "Size"
    /\ io.before # EmptyMap
    /\ Len(io.calls) = 1

\* C21: get, exists, keys and size, called on the handle or through the
\* commands Get, Exists, Keys, Size and Ping, leave the mapping as it was:
\* the same keys with the same values, whether or not the key is present.
C21_ReadsChangeNothing ==
    (pc[0] = "returned" /\ req[0].name \in {"get", "exists", "keys", "size", "ping"})
    => /\ DOMAIN heap[req[0].self] = DOMAIN pre[0].data
       /\ \A k \in DOMAIN pre[0].data : heap[req[0].self][k] = pre[0].data[k]
\* a Get of a present key has returned and the key is still there
C21_Witness ==
    /\ pc[0] = "returned"
    /\ req[0].name = "get"
    /\ req[0].via = "api"
    /\ req[0].key \in DOMAIN pre[0].data
    /\ req[0].key \in DOMAIN heap[req[0].self]

\* C22: set(k, v) and del(k) touch key k only: every other key is present
\* after the call exactly if it was before, with the same value; del of an
\* absent key changes nothing.
C22_OtherKeysKept ==
    \A t \in DOMAIN pc :
        (pc[t] = "drop" /\ req[t].name \in {"set", "del"}) =>
            LET after == heap[req[t].self]
                before == pre[t].data IN
            /\ \A j \in (DOMAIN after \cup DOMAIN before) \ {req[t].key} :
                 /\ j \in DOMAIN after
                 /\ j \in DOMAIN before
                 /\ after[j] = before[j]
            /\ (req[t].name = "del" /\ req[t].key \notin DOMAIN before)
                 => after = before
\* a del of a present key has run while another key was in the map
C22_Witness ==
    \E t \in DOMAIN pc :
        /\ pc[t] = "drop"
        /\ req[t].name = "del"
        /\ req[t].key \in DOMAIN pre[t].data
        /\ DOMAIN heap[req[t].self] # {}

\* C23: original statement.  No call keeps the lock past its return, the
\* lock is free when no operation is in progress, and under fair scheduling
\* every call a thread has issued eventually returns.
C23_Original ==
    /\ [](\A a \in DOMAIN lock :
            /\ lock[a].readers = {t \in ReadHolders : req[t].self = a}
            /\ lock[a].writer = {t \in WriteHolders : req[t].self = a})
    /\ \A t \in Threads : (pc[t] = "waiting") ~> (pc[t] = "idle")

\* C23: no call keeps the lock past its return, so the lock is free when no
\* operation is in progress; under fair scheduling every call that has the
\* lock eventually returns, and a call waiting for the lock is eventually
\* granted it unless other calls take the lock again and again.
C23_NoLeakNoDeadlock ==
    /\ [](\A a \in DOMAIN lock :
            /\ lock[a].readers = {t \in ReadHolders : req[t].self = a}
            /\ lock[a].writer = {t \in WriteHolders : req[t].self = a})
    /\ \A t \in Threads : (pc[t] \in {"held", "drop"}) ~> (pc[t] = "idle")
    /\ \A t \in Threads : (pc[t] = "waiting") ~> (pc[t] = "held" \/ (pc[t] = "waiting" /\ Blocked(t)))
\* a write waits for the lock while another thread reads under it
C23_Witness ==
    \E t, u \in Threads :
        /\ pc[t] = "waiting"
        /\ LockKind(req[t].name) = "write"
        /\ pc[u] = "drop"
        /\ u \in lock[req[t].self].readers

\* C24: a single-shot subcommand runs on a store created empty in its own
\* process and makes exactly one Dispatcher call: whatever the runs before
\* have executed, get prints null, exists and del print false, size prints 0
\* and keys prints [], and the exit code is 0, also for a Failure.
C24_SingleShot ==
    /\ \A name \in {"get", "set"} :
         main_println(response_to_json(Response_Error(LockError(name).val))).code = 0
    /\ io.via = "main" =>
         /\ io.before = EmptyMap
         /\ io.executed = <<io.command>>
         /\ io.code = 0
         /\ Len(io.stdout) = 1
         /\ io.command.cmd = "Get" => io.stdout[1] = JNull
         /\ io.command.cmd \in {"Exists", "Del"} => io.stdout[1] = JBool(FALSE)
         /\ io.command.cmd = "Size" => io.stdout[1] = JNum(0)
         /\ io.command.cmd = "Keys" => io.stdout[1] = JArr(<<>>)
\* get <key> has run after an earlier run had set that key
C24_Witness ==
    /\ io.via = "main"
    /\ io.command.cmd = "Get"
    /\ io.command.key \in Present(lastWrite)
    /\ io.stdout = <<JNull>>

\* the i-th line of the input is exactly quit or exit
ExactQuit(i) == io.stdin[i] \in {Line(<<"quit">>), Line(<<"exit">>)}
\* the i-th read ends the loop: quit or exit once trimmed, or a read error
EndsLoop(i) ==
    \/ io.stdin[i].t = "err"
    \/ io.stdin[i].t = "line" /\ trim(io.stdin[i].v) \in {<<"quit">>, <<"exit">>}
\* the lines read so far were taken in order, with at most one Dispatcher
\* call each, and empty lines and help executed nothing
InOrder ==
    /\ Len(io.log) = io.pos
    /\ io.pos <= Len(io.stdin)
    /\ \A i \in 1..io.pos :
         /\ io.log[i].input = io.stdin[i]
         /\ Len(io.log[i].executed) <= 1
         /\ Len(io.log[i].calls) <= Len(io.log[i].executed)
         /\ io.stdin[i] \in {Line(<<>>), Line(<<"help">>)} =>
              /\ io.log[i].executed = <<>>
              /\ io.log[i].calls = <<>>
              /\ i < Len(io.stdin) => (pc[0] = "idle" \/ io.pos > i)

====
